---- MODULE Spec2Model ----
(***************************************************************************)
(* The token scanner of the xbasic compiler (src/compiler/db_scan.c):      *)
(* the input file stack (RewindInput, PushFile, ClearIncludedFiles,        *)
(* CloseParseContext, GetLine), the character reader (XGetC, UngetC,       *)
(* GetChar, SkipComment, SkipSpaces) and the token recognizer (GetToken,   *)
(* SaveToken, NextToken and the literal scanners).                         *)
(*                                                                         *)
(* A character is a one-character string; a line, the line buffer and the  *)
(* token spelling are sequences of characters.  The line buffer is held    *)
(* without its terminating NUL: linePtr is the 1-based index of the next   *)
(* character, and linePtr = Len(lineBuf) + 1 is the pointer at the NUL.    *)
(***************************************************************************)
EXTENDS Integers, Sequences, FiniteSets, TLC

(***************************************************************************)
(* Bounds of the model.                                                    *)
(***************************************************************************)
\* pieces after the first word of a generated source line
MaxGap == 3
\* lines of the main source and of an include file in the input-stack runs
MaxSrcLines == 1
\* ParseFile frames that can be allocated at once
MaxFrames == 2
\* characters after the opening of a generated literal
MaxLit == 3

(***************************************************************************)
(* Program constants.                                                      *)
(***************************************************************************)
\* capacity of the token spelling buffer (db_compiler.h, used at line 517)
MAXTOKEN == 32

(***************************************************************************)
(* Characters.                                                             *)
(***************************************************************************)
EOF == "EOF"
NL == "\n"

UpperSeq ==
  << "A","B","C","D","E","F","G","H","I","J","K","L","M",
     "N","O","P","Q","R","S","T","U","V","W","X","Y","Z" >>
LowerSeq ==
  << "a","b","c","d","e","f","g","h","i","j","k","l","m",
     "n","o","p","q","r","s","t","u","v","w","x","y","z" >>
DigitSeq == << "0","1","2","3","4","5","6","7","8","9" >>

Range(s) == { s[i] : i \in DOMAIN s }

isupper(ch) == ch \in Range(UpperSeq)
islower(ch) == ch \in Range(LowerSeq)
isdigit(ch) == ch \in Range(DigitSeq)
isspace(ch) == ch \in { " ", "\t", "\n", "\r", "\f" }
isxdigit(ch) ==
  \/ isdigit(ch)
  \/ ch \in { "a","b","c","d","e","f","A","B","C","D","E","F" }

\* tolower, as strcasecmp applies it to both operands
tolower(ch) ==
  IF isupper(ch)
  THEN LowerSeq[CHOOSE i \in DOMAIN UpperSeq : UpperSeq[i] = ch]
  ELSE ch

strcasecmpEq(a, b) ==
  /\ Len(a) = Len(b)
  /\ \A i \in DOMAIN a : tolower(a[i]) = tolower(b[i])

IdentifierCharP(ch) == isupper(ch) \/ islower(ch) \/ isdigit(ch) \/ ch = "_"

(***************************************************************************)
(* The keyword table.                                                      *)
(***************************************************************************)
ktab ==
  << [keyword |-> <<"R","E","M">>,                 token |-> "T_REM"],
     [keyword |-> <<"O","P","T","I","O","N">>,     token |-> "T_OPTION"],
     [keyword |-> <<"I","N","C","L","U","D","E">>, token |-> "T_INCLUDE"],
     [keyword |-> <<"D","E","F">>,                 token |-> "T_DEF"],
     [keyword |-> <<"D","I","M">>,                 token |-> "T_DIM"],
     [keyword |-> <<"A","S">>,                     token |-> "T_AS"],
     [keyword |-> <<"I","N">>,                     token |-> "T_IN"],
     [keyword |-> <<"L","E","T">>,                 token |-> "T_LET"],
     [keyword |-> <<"I","F">>,                     token |-> "T_IF"],
     [keyword |-> <<"T","H","E","N">>,             token |-> "T_THEN"],
     [keyword |-> <<"E","L","S","E">>,             token |-> "T_ELSE"],
     [keyword |-> <<"S","E","L","E","C","T">>,     token |-> "T_SELECT"],
     [keyword |-> <<"C","A","S","E">>,             token |-> "T_CASE"],
     [keyword |-> <<"E","N","D">>,                 token |-> "T_END"],
     [keyword |-> <<"F","O","R">>,                 token |-> "T_FOR"],
     [keyword |-> <<"T","O">>,                     token |-> "T_TO"],
     [keyword |-> <<"S","T","E","P">>,             token |-> "T_STEP"],
     [keyword |-> <<"N","E","X","T">>,             token |-> "T_NEXT"],
     [keyword |-> <<"D","O">>,                     token |-> "T_DO"],
     [keyword |-> <<"W","H","I","L","E">>,         token |-> "T_WHILE"],
     [keyword |-> <<"U","N","T","I","L">>,         token |-> "T_UNTIL"],
     [keyword |-> <<"L","O","O","P">>,             token |-> "T_LOOP"],
     [keyword |-> <<"G","O","T","O">>,             token |-> "T_GOTO"],
     [keyword |-> <<"M","O","D">>,                 token |-> "T_MOD"],
     [keyword |-> <<"A","N","D">>,                 token |-> "T_AND"],
     [keyword |-> <<"O","R">>,                     token |-> "T_OR"],
     [keyword |-> <<"X","O","R">>,                 token |-> "T_XOR"],
     [keyword |-> <<"N","O","T">>,                 token |-> "T_NOT"],
     [keyword |-> <<"S","T","O","P">>,             token |-> "T_STOP"],
     [keyword |-> <<"R","E","T","U","R","N">>,     token |-> "T_RETURN"],
     [keyword |-> <<"I","N","P","U","T">>,         token |-> "T_INPUT"],
     [keyword |-> <<"P","R","I","N","T">>,         token |-> "T_PRINT"],
     [keyword |-> <<"A","S","M">>,                 token |-> "T_ASM"] >>

T_NONE == "T_NONE"
T_EOL == "T_EOL"
T_IDENTIFIER == "T_IDENTIFIER"
T_NUMBER == "T_NUMBER"
T_STRING == "T_STRING"

\* no ParseError was raised
NoError == "none"

(***************************************************************************)
(* The character reader.                                                   *)
(***************************************************************************)
\* XGetC: the next character of the line, no comment handling; at the NUL
\* the pointer is stepped back and EOF returned
XGetC(buf, ptr) ==
  IF ptr > Len(buf)
  THEN [ch |-> EOF, ptr |-> ptr]
  ELSE [ch |-> buf[ptr], ptr |-> ptr + 1]

\* UngetC: back the pointer up by one, whatever was read last
UngetC(ptr) == ptr - 1

\* SkipComment: read up to and including the next "*/"; found = FALSE at EOF
RECURSIVE SkipCommentFrom(_, _, _)
SkipCommentFrom(buf, ptr, lastch) ==
  LET r == XGetC(buf, ptr) IN
  IF r.ch = EOF THEN [found |-> FALSE, ptr |-> r.ptr]
  ELSE IF lastch = "*" /\ r.ch = "/" THEN [found |-> TRUE, ptr |-> r.ptr]
  ELSE SkipCommentFrom(buf, r.ptr, r.ch)

SkipComment(buf, ptr) == SkipCommentFrom(buf, ptr, "NUL")

\* (variant: the rest of the line after // is not skipped)
SkipLineNot(buf, ptr) == ptr

\* the loop of a // comment: read to EOF
RECURSIVE SkipLine(_, _)
SkipLine(buf, ptr) ==
  LET r == XGetC(buf, ptr) IN
  IF r.ch = EOF THEN r.ptr ELSE SkipLine(buf, r.ptr)

RECURSIVE GetCharLoop(_, _)

\* GetChar once SkipComment has returned k: EOF inside the comment when
\* its end was not found, the loop after the comment when it was
AfterComment(buf, k) ==
  IF ~k.found
  THEN [ch |-> EOF, ptr |-> k.ptr, inComment |-> TRUE]
  ELSE GetCharLoop(buf, k.ptr)

\* the for (;;) loop of GetChar
GetCharLoop(buf, ptr) ==
  LET a == XGetC(buf, ptr) IN
  IF a.ch = EOF THEN [ch |-> EOF, ptr |-> a.ptr, inComment |-> FALSE]
  ELSE IF a.ch = "/" THEN
    LET b == XGetC(buf, a.ptr) IN
    IF b.ch = "/" THEN GetCharLoop(buf, SkipLine(buf, b.ptr))
    ELSE IF b.ch = "*" THEN AfterComment(buf, SkipComment(buf, b.ptr))
    ELSE [ch |-> "/", ptr |-> UngetC(b.ptr), inComment |-> FALSE]
  ELSE [ch |-> a.ch, ptr |-> a.ptr, inComment |-> FALSE]

\* GetChar: the next character with comments elided
GetChar(buf, ptr, inC) ==
  IF inC
  THEN AfterComment(buf, SkipComment(buf, ptr))
  ELSE GetCharLoop(buf, ptr)

RECURSIVE SkipSpaces(_, _, _)

\* the body of the loop of SkipSpaces, g being what GetChar returned
SkipSpacesOn(buf, g) ==
  IF g.ch # EOF /\ isspace(g.ch)
  THEN SkipSpaces(buf, g.ptr, g.inComment)
  ELSE g

\* SkipSpaces: the first character GetChar delivers that is not a space
SkipSpaces(buf, ptr, inC) == SkipSpacesOn(buf, GetChar(buf, ptr, inC))

(***************************************************************************)
(* The token recognizer.  A scanner returns the token kind, the scan state *)
(* it leaves (ptr, inComment), the spelling buffer, the decoded value and  *)
(* err: NoError, or the message of the ParseError that ended it, with the  *)
(* state as it was when ParseError jumped out.                             *)
(***************************************************************************)
Res(tkn, ptr, inC, tok, val, err) ==
  [tkn |-> tkn, ptr |-> ptr, inComment |-> inC, token |-> tok,
   value |-> val, err |-> err]

\* the lookup loop of IdentifierToken: the first entry that matches
KeywordLookup(tok) ==
  IF \E i \in DOMAIN ktab : strcasecmpEq(ktab[i].keyword, tok)
  THEN LET i == CHOOSE j \in DOMAIN ktab :
                  /\ strcasecmpEq(ktab[j].keyword, tok)
                  /\ \A k \in 1..(j - 1) : ~strcasecmpEq(ktab[k].keyword, tok)
       IN ktab[i].token
  ELSE T_IDENTIFIER

RECURSIVE IdentifierLoop(_, _, _, _, _)

\* the body of the collecting loop of IdentifierToken and what follows the
\* loop, g being what GetChar returned
IdentifierOn(buf, g, tok, val) ==
  IF g.ch # EOF /\ IdentifierCharP(g.ch)
  THEN IF Len(tok) + 1 > MAXTOKEN
       THEN Res(T_NONE, g.ptr, g.inComment, tok, val, "Identifier too long")
       ELSE IdentifierLoop(buf, g.ptr, g.inComment, Append(tok, g.ch), val)
  ELSE Res(KeywordLookup(tok), UngetC(g.ptr), g.inComment, tok, val, NoError)

\* the collecting loop of IdentifierToken
IdentifierLoop(buf, ptr, inC, tok, val) ==
  IdentifierOn(buf, GetChar(buf, ptr, inC), tok, val)

IdentifierToken(buf, ptr, inC, ch, val) ==
  IdentifierLoop(buf, ptr, inC, <<ch>>, val)

\* base conversion of a digit string, as atol and strtoul compute it
DigitValue(ch) ==
  IF isdigit(ch) THEN (CHOOSE i \in DOMAIN DigitSeq : DigitSeq[i] = ch) - 1
  ELSE IF islower(ch) THEN 9 + (CHOOSE i \in DOMAIN LowerSeq : LowerSeq[i] = ch)
  ELSE 9 + (CHOOSE i \in DOMAIN UpperSeq : UpperSeq[i] = ch)

\* the largest value a VMVALUE holds, and the mark that stands for the
\* VMVALUE an out-of-range digit string is converted to (atol and strtoul
\* saturate, the cast truncates: what comes out depends on the build)
VMVALUE_MAX == 2147483647
OutOfRange == -1

\* acc is the value of the digits before position i
RECURSIVE ConvertFrom(_, _, _, _)
ConvertFrom(digits, i, base, acc) ==
  IF i > Len(digits) THEN acc
  ELSE IF acc > (VMVALUE_MAX - DigitValue(digits[i])) \div base
  THEN OutOfRange
  ELSE ConvertFrom(digits, i + 1, base, acc * base + DigitValue(digits[i]))

Convert(digits, base) == ConvertFrom(digits, 1, base, 0)

\* (variant: every base collects decimal digits only)
IsDigitOfTen(ch, base) == isdigit(ch)

\* the collecting loop shared in shape by NumberToken, HexNumberToken and
\* BinaryNumberToken: digits of the base are stored, "_" is dropped
IsDigitOf(ch, base) ==
  IF base = 10 THEN isdigit(ch)
  ELSE IF base = 16 THEN isxdigit(ch)
  ELSE ch = "0" \/ ch = "1"

RECURSIVE DigitLoop(_, _, _, _, _)

\* the body of that loop and what follows it, g being what GetChar returned
DigitOn(buf, g, tok, base) ==
  IF g.ch # EOF /\ IsDigitOf(g.ch, base)
  THEN DigitLoop(buf, g.ptr, g.inComment, Append(tok, g.ch), base)
  ELSE IF g.ch # EOF /\ g.ch = "_"
  THEN DigitLoop(buf, g.ptr, g.inComment, tok, base)
  ELSE Res(T_NUMBER, UngetC(g.ptr), g.inComment, tok, Convert(tok, base),
           NoError)

DigitLoop(buf, ptr, inC, tok, base) ==
  DigitOn(buf, GetChar(buf, ptr, inC), tok, base)

NumberToken(buf, ptr, inC, ch) == DigitLoop(buf, ptr, inC, <<ch>>, 10)
HexNumberToken(buf, ptr, inC) == DigitLoop(buf, ptr, inC, <<>>, 16)
BinaryNumberToken(buf, ptr, inC) == DigitLoop(buf, ptr, inC, <<>>, 2)

\* (variant: the character after a backslash is taken as it is)
LiteralCharPlain(buf, ptr) == XGetC(buf, ptr)

\* LiteralChar: one character of a literal, with the escapes decoded
LiteralChar(buf, ptr) ==
  LET r == XGetC(buf, ptr) IN
  [ch |-> IF r.ch = "n" THEN "\n"
          ELSE IF r.ch = "r" THEN "\r"
          ELSE IF r.ch = "t" THEN "\t"
          ELSE IF r.ch = EOF THEN "\\"
          ELSE r.ch,
   ptr |-> r.ptr]

\* the collecting loop of StringToken
RECURSIVE StringLoop(_, _, _, _, _)
StringLoop(buf, ptr, inC, tok, val) ==
  LET r == XGetC(buf, ptr) IN
  IF r.ch # EOF /\ r.ch # "\""
  THEN IF Len(tok) + 1 > MAXTOKEN
       THEN Res(T_NONE, r.ptr, inC, tok, val, "String too long")
       ELSE IF r.ch = "\\"
       THEN LET l == LiteralChar(buf, r.ptr) IN
            StringLoop(buf, l.ptr, inC, Append(tok, l.ch), val)
       ELSE StringLoop(buf, r.ptr, inC, Append(tok, r.ch), val)
  ELSE IF r.ch # "\""
  THEN Res(T_NONE, r.ptr, inC, tok, val, "unterminated string")
  ELSE Res(T_STRING, r.ptr, inC, tok, val, NoError)

StringToken(buf, ptr, inC, val) == StringLoop(buf, ptr, inC, <<>>, val)

\* the character codes 32..126 (code 96 is named: a string cannot hold it)
AsciiSeq ==
  << " ","!","\"","#","$","%","&","'","(",")","*","+",",","-",".","/",
     "0","1","2","3","4","5","6","7","8","9",":",";","<","=",">","?",
     "@","A","B","C","D","E","F","G","H","I","J","K","L","M","N","O",
     "P","Q","R","S","T","U","V","W","X","Y","Z","[","\\","]","^","_",
     "GRAVE","a","b","c","d","e","f","g","h","i","j","k","l","m","n","o",
     "p","q","r","s","t","u","v","w","x","y","z","{","|","}","~" >>

CharCode(ch) ==
  IF ch = "\t" THEN 9
  ELSE IF ch = "\n" THEN 10
  ELSE IF ch = "\f" THEN 12
  ELSE IF ch = "\r" THEN 13
  ELSE 31 + (CHOOSE i \in DOMAIN AsciiSeq : AsciiSeq[i] = ch)

CharToken(buf, ptr, inC, tok, val) ==
  LET l == LiteralChar(buf, ptr)
      q == XGetC(buf, l.ptr)
  IN IF q.ch # "'"
     THEN Res(T_NONE, q.ptr, inC, tok, val, "Expecting a closing single quote")
     ELSE Res(T_NUMBER, q.ptr, inC, <<l.ch>>, CharCode(l.ch), NoError)

\* (variant: the two cases of DO are exchanged)
MergeTableExchanged ==
  { <<"T_ELSE", "T_IF",     "T_ELSE_IF">>,
    <<"T_END",  "T_DEF",    "T_END_DEF">>,
    <<"T_END",  "T_IF",     "T_END_IF">>,
    <<"T_END",  "T_SELECT", "T_END_SELECT">>,
    <<"T_END",  "T_ASM",    "T_END_ASM">>,
    <<"T_DO",   "T_WHILE",  "T_DO_UNTIL">>,
    <<"T_DO",   "T_UNTIL",  "T_DO_WHILE">>,
    <<"T_LOOP", "T_WHILE",  "T_LOOP_WHILE">>,
    <<"T_LOOP", "T_UNTIL",  "T_LOOP_UNTIL">> }

\* the cases of the four compound-keyword switches of NextToken:
\* <<first keyword, second keyword, compound kind>>
MergeTable ==
  { <<"T_ELSE", "T_IF",     "T_ELSE_IF">>,
    <<"T_END",  "T_DEF",    "T_END_DEF">>,
    <<"T_END",  "T_IF",     "T_END_IF">>,
    <<"T_END",  "T_SELECT", "T_END_SELECT">>,
    <<"T_END",  "T_ASM",    "T_END_ASM">>,
    <<"T_DO",   "T_WHILE",  "T_DO_WHILE">>,
    <<"T_DO",   "T_UNTIL",  "T_DO_UNTIL">>,
    <<"T_LOOP", "T_WHILE",  "T_LOOP_WHILE">>,
    <<"T_LOOP", "T_UNTIL",  "T_LOOP_UNTIL">> }

\* the keywords whose case in NextToken looks ahead for a second word
MergeFirst == { "T_ELSE", "T_END", "T_DO", "T_LOOP" }

\* what the failed lookahead restores: the saved linePtr, and nothing else
Rollback(savePtr, after) ==
  [ptr |-> savePtr, inComment |-> after.inComment]

\* the inner switch of a case T_ELSE / T_END / T_DO / T_LOOP: first and
\* second are the results of the two IdentifierToken calls
MergeSwitch(first, second) ==
  IF second.err # NoError THEN second
  ELSE IF \E m \in MergeTable : m[1] = first.tkn /\ m[2] = second.tkn
  THEN LET m == CHOOSE n \in MergeTable :
                  n[1] = first.tkn /\ n[2] = second.tkn
       IN Res(m[3], second.ptr, second.inComment, second.token,
              second.value, NoError)
  ELSE LET b == Rollback(first.ptr, second)
       IN Res(first.tkn, b.ptr, b.inComment, second.token, second.value,
              NoError)

\* the if of such a case, s being what SkipSpaces returned after the
\* keyword; savePtr is first.ptr
MergeOn(buf, first, s) ==
  IF s.ch # EOF /\ IdentifierCharP(s.ch)
  THEN MergeSwitch(first,
                   IdentifierToken(buf, s.ptr, s.inComment, s.ch, first.value))
  ELSE LET b == Rollback(first.ptr, s)
       IN Res(first.tkn, b.ptr, b.inComment, first.token, first.value,
              NoError)

\* one case T_ELSE / T_END / T_DO / T_LOOP of NextToken; first is the
\* result of the IdentifierToken call that recognized the keyword
MergeKeyword(buf, first) ==
  MergeOn(buf, first, SkipSpaces(buf, first.ptr, first.inComment))

\* the case '<' and the case '>' of NextToken, g being what GetChar returned
LessOn(g, tok, val) ==
  IF g.ch = "=" THEN Res("T_LE", g.ptr, g.inComment, tok, val, NoError)
  ELSE IF g.ch = ">" THEN Res("T_NE", g.ptr, g.inComment, tok, val, NoError)
  ELSE IF g.ch = "<" THEN Res("T_SHL", g.ptr, g.inComment, tok, val, NoError)
  ELSE Res("<", UngetC(g.ptr), g.inComment, tok, val, NoError)

LessToken(buf, ptr, inC, tok, val) ==
  LessOn(GetChar(buf, ptr, inC), tok, val)

GreaterOn(g, tok, val) ==
  IF g.ch = "=" THEN Res("T_GE", g.ptr, g.inComment, tok, val, NoError)
  ELSE IF g.ch = ">" THEN Res("T_SHR", g.ptr, g.inComment, tok, val, NoError)
  ELSE Res(">", UngetC(g.ptr), g.inComment, tok, val, NoError)

GreaterToken(buf, ptr, inC, tok, val) ==
  GreaterOn(GetChar(buf, ptr, inC), tok, val)

\* the case '0' of NextToken, g being what GetChar returned
ZeroOn(buf, g) ==
  IF g.ch = "x" \/ g.ch = "X" THEN HexNumberToken(buf, g.ptr, g.inComment)
  ELSE IF g.ch = "b" \/ g.ch = "B"
  THEN BinaryNumberToken(buf, g.ptr, g.inComment)
  ELSE NumberToken(buf, UngetC(g.ptr), g.inComment, "0")

ZeroToken(buf, ptr, inC) == ZeroOn(buf, GetChar(buf, ptr, inC))

\* the switch on the keyword IdentifierToken returned
KeywordSwitch(buf, first) ==
  IF first.err = NoError /\ first.tkn \in MergeFirst
  THEN MergeKeyword(buf, first)
  ELSE first

\* the switch (ch) of NextToken, s being what SkipSpaces returned
TokenSwitch(buf, s, tok, val) ==
  IF s.ch = EOF THEN Res(T_EOL, s.ptr, s.inComment, tok, val, NoError)
  ELSE IF s.ch = "\"" THEN StringToken(buf, s.ptr, s.inComment, val)
  ELSE IF s.ch = "'" THEN CharToken(buf, s.ptr, s.inComment, tok, val)
  ELSE IF s.ch = "<" THEN LessToken(buf, s.ptr, s.inComment, tok, val)
  ELSE IF s.ch = ">" THEN GreaterToken(buf, s.ptr, s.inComment, tok, val)
  ELSE IF s.ch = "0" THEN ZeroToken(buf, s.ptr, s.inComment)
  ELSE IF isdigit(s.ch) THEN NumberToken(buf, s.ptr, s.inComment, s.ch)
  ELSE IF IdentifierCharP(s.ch)
  THEN KeywordSwitch(buf,
                     IdentifierToken(buf, s.ptr, s.inComment, s.ch, val))
  ELSE Res(s.ch, s.ptr, s.inComment, tok, val, NoError)

\* NextToken: read the next token
NextToken(buf, ptr, inC, tok, val) ==
  TokenSwitch(buf, SkipSpaces(buf, ptr, inC), tok, val)

\* c->tokenOffset as NextToken sets it: linePtr - lineBuf after the leading
\* blanks and the first character of the token
TokenOffset(buf, ptr, inC) == SkipSpaces(buf, ptr, inC).ptr - 1

(***************************************************************************)
(* The state.                                                              *)
(*                                                                         *)
(* ParseContext: lineBuf, linePtr, inComment, savedToken, token, value,    *)
(* tokenOffset, currentInclude, includedFiles (newest first) and the input *)
(* file stack.  The stack is the chain currentFile, ->next, ...: fileStack *)
(* holds its malloc'ed ParseFile frames, top first, and mainOnStack says   *)
(* whether the chain ends in &c->mainFile (TRUE) or in NULL (FALSE); the   *)
(* next field of mainFile is NULL.  currentFile = NULL is fileStack = <<>> *)
(* with mainOnStack = FALSE.                                               *)
(*                                                                         *)
(* The host: mainSrc and mainPos are the text behind the getLine / rewind  *)
(* callbacks of the main file and the callbacks' position in it; fileSrc   *)
(* is the text of each include file.                                       *)
(*                                                                         *)
(* heap holds the ids of the ParseFile frames that are malloc'ed and not   *)
(* freed (allocated) and of those whose FILE is open (open); id 0 is       *)
(* mainFile, which lives inside the ParseContext.  badFree and badClose    *)
(* say that free or fclose was called on a frame that is not allocated, or *)
(* not open.                                                               *)
(*                                                                         *)
(* History: last records the last operation: its name, its argument (for   *)
(* GetLine the saved token that was pending when it was called), what it   *)
(* returned ("FAIL" when ParseError jumped out of it), for GetLine the     *)
(* number of lines it asked for and the frame that supplied one.           *)
(* delivered holds the lines <<file, number>> of include files that        *)
(* GetLine delivered since the last ClearIncludedFiles, whether one of     *)
(* them was delivered twice, and the names of the files that PushFile      *)
(* opened and pushed since then.  skipped says that a caller asked for a   *)
(* new line before GetToken had reached the end of the line in the buffer. *)
(*                                                                         *)
(* The compiler pass that calls the scanner: control is where the pass is  *)
(* ("pass": in its loop over lines and tokens, "recovery": at errorTarget  *)
(* after a longjmp, "end": past the loop), errors the diagnostics printed  *)
(* in this pass, pass the number of the pass, tokens the kinds of the      *)
(* tokens scanned in this pass, firstPass those of the pass before the     *)
(* rewind, and lineDone says that the pass is between two lines.           *)
(***************************************************************************)
VARIABLES lineBuf, linePtr, inComment, savedToken, token, value, tokenOffset,
          currentInclude, includedFiles, fileStack, mainOnStack,
          mainLineNumber, mainSrc, mainPos, fileSrc, heap, last, delivered,
          skipped, control, errors, pass, tokens, firstPass, lineDone

ctxVars == << lineBuf, linePtr, inComment, savedToken, token, value,
              tokenOffset >>
stackVars == << currentInclude, includedFiles, fileStack, mainOnStack,
                mainLineNumber, mainPos, heap >>
hostVars == << mainSrc, fileSrc >>
vars == << lineBuf, linePtr, inComment, savedToken, token, value, tokenOffset,
           currentInclude, includedFiles, fileStack, mainOnStack,
           mainLineNumber, mainSrc, mainPos, fileSrc, heap, last, delivered,
           skipped, control, errors, pass, tokens, firstPass, lineDone >>
passVars == << control, errors, pass, tokens, firstPass, lineDone >>

\* the names INCLUDE is given
Names == { "A", "B" }
NULL == "NULL"
\* the value of a pointer to an IncludedFile that ClearIncludedFiles freed
DANGLING == "DANGLING"
MainId == 0
FrameIds == 1..MaxFrames

\* the tokens the parser hands to SaveToken
SaveKinds == { "T_IF", T_IDENTIFIER }

Last(op, arg, ret, fetches, supplier) ==
  [op |-> op, arg |-> arg, ret |-> ret, fetches |-> fetches,
   supplier |-> supplier]

(***************************************************************************)
(* Source text of the runs.                                                *)
(***************************************************************************)
RECURSIVE Concat(_)
Concat(ss) == IF ss = <<>> THEN <<>> ELSE Head(ss) \o Concat(Tail(ss))

SeqsUpTo(S, n) == UNION { [1..k -> S] : k \in 0..n }

\* the three shapes of line a line reader hands over: ended by a newline,
\* not ended (the last line of a file) and empty
RawShapes == << <<"x", "\n">>, <<"x">>, <<>> >>
ShapedText(first, n) ==
  [i \in 1..n |-> RawShapes[((first + i - 1) % 3) + 1]]

\* the main source has any length up to MaxSrcLines; an include file is
\* empty or has MaxSrcLines lines
StackMainSources == { ShapedText(0, n) : n \in 0..MaxSrcLines }
StackFileSources(name) ==
  { ShapedText(IF name = "A" THEN 1 ELSE 2, n) : n \in {0, MaxSrcLines} }

\* words and separators of the scanner runs
WEND == <<"E","N","D">>
WELSE == <<"E","L","S","E">>
WDO == <<"D","O">>
WLOOP == <<"L","O","O","P">>
WIF == <<"I","F">>
WDEF == <<"D","E","F">>
WSELECT == <<"S","E","L","E","C","T">>
WASM == <<"A","S","M">>
WWHILE == <<"W","H","I","L","E">>
WUNTIL == <<"U","N","T","I","L">>

PairWords ==
  { WEND, WELSE, WDO, WLOOP, WIF, WDEF, WSELECT, WASM, WWHILE, WUNTIL,
    <<"x">>, <<"e","n","d">>, <<"I","f">>, <<"T","H","E","N">> }
GapFirst == { <<>>, WEND }
GapPieces ==
  { <<" ">>, <<"/","*">>, <<"*","/">>, <<"/","/">>, <<"/">>, <<"x">>, WIF,
    <<"/","*","c","*","/">> }

\* every pair of words, a space between
PairLines == { (a \o <<" ">> \o b) \o <<NL>> : a \in PairWords, b \in PairWords }
\* a first word and up to MaxGap pieces
GapLinesOf(w) ==
  { (w \o Concat(g)) \o <<NL>> : g \in SeqsUpTo(GapPieces, MaxGap) }
GapLines == UNION { GapLinesOf(w) : w \in GapFirst }
\* literals and operators
MiscLines ==
  { <<"0","x","1","_","F"," ","0","b","1","0","_","1"," ","1","_","0","0","0",NL>>,
    <<"\"","a","\\","n","b","\""," ","'","\\","t","'"," ","'","x",NL>>,
    <<"\"","a","\\",NL>>,
    <<"<","="," ","<",">"," ","<","<"," ","<"," ",">","="," ",">",">"," ",">",NL>>,
    <<"0","/","x"," ","0","7"," ","+",NL>>,
    <<"E","N","D"," ","/","*","/","I","F","*","/","x","/","*",NL>> }
\* first lines of the two-line sources
OpenLines ==
  { <<"/","*",NL>>, <<"x"," ","/","*"," ","x",NL>>, <<"/","/"," ","/","*",NL>>,
    <<" ","/","*","/",NL>>, <<"/","*"," ","*",NL>>, <<"E","N","D"," ","/","*",NL>> }

\* second lines of the two-line sources
CloseLines ==
  { Concat(g) \o <<NL>> : g \in SeqsUpTo(GapPieces, MaxGap - 1) }

\* n times the character ch
Rep(ch, n) == [i \in 1..n |-> ch]

\* string literals: an opening quote and up to MaxLit characters
StringChars == { "a", "\\", "\"", "n", "/", "*" }
StringLines ==
  { (<<"\"">> \o g) \o <<NL>> : g \in SeqsUpTo(StringChars, MaxLit) }

\* character literals: an opening quote and up to MaxLit characters
CharChars == { "a", "\\", "'", "t" }
CharLines ==
  { (<<"'">> \o g) \o <<NL>> : g \in SeqsUpTo(CharChars, MaxLit) }

\* numeric literals: a start and up to MaxLit characters
NumberStarts == { <<"0", "x">>, <<"0", "b">>, <<"1">>, <<"0">> }
NumberChars == { "0", "1", "_", "F", "2", "g" }
NumberLines ==
  { (p \o g) \o <<NL>> : p \in NumberStarts, g \in SeqsUpTo(NumberChars, MaxLit) }

\* tokens at and over the capacity of the spelling buffer, and literals
\* at and over the range of a value
LongLines ==
  { Rep("a", MAXTOKEN) \o <<NL>>,
    Rep("a", MAXTOKEN + 1) \o <<NL>>,
    (WEND \o <<" ">> \o Rep("a", MAXTOKEN + 1)) \o <<NL>>,
    (<<"\"">> \o Rep("a", MAXTOKEN) \o <<"\"">>) \o <<NL>>,
    (<<"\"">> \o Rep("a", MAXTOKEN + 1) \o <<"\"">>) \o <<NL>>,
    (<<"\"">> \o Rep("a", MAXTOKEN - 1) \o <<"\\", "n", "\"">>) \o <<NL>>,
    (<<"\"">> \o Rep("a", MAXTOKEN) \o <<"\\", "n", "\"">>) \o <<NL>>,
    (<<"\"">> \o Rep("a", MAXTOKEN)) \o <<NL>>,
    Rep("0", MAXTOKEN) \o <<NL>>,
    Rep("1", MAXTOKEN + 1) \o <<NL>>,
    (<<"0", "x">> \o Rep("0", MAXTOKEN + 1)) \o <<NL>>,
    (<<"0", "b">> \o Rep("1", MAXTOKEN + 1)) \o <<NL>>,
    <<"2","1","4","7","4","8","3","6","4","7"," ","2","1","4","7","4","8","3","6","4","8",NL>>,
    <<"0","x","7","F","F","F","_","F","F","F","F"," ","0","X","8","0","0","0","0","0","0","0",NL>>,
    <<"0","B","1","1"," ","0","x","g"," ","0","b","2"," ","0","x","a","B",NL>>,
    <<"1","/","*","c","*","/","0"," ","0","/","*","c","*","/","x","1","/","/",NL>> }

\* the lines of literals
LitSources ==
  { <<l>> : l \in StringLines \cup CharLines \cup NumberLines \cup LongLines
                    \cup MiscLines }

\* the sources of the two-pass runs: up to MaxGap pieces on a line, and
\* lines of keywords after a line that may leave a comment open
PassPieces == { <<" ">>, <<"/","*">>, <<"*","/">>, <<"x">>, <<"\"">> }
PieceLines == { Concat(g) \o <<NL>> : g \in SeqsUpTo(PassPieces, MaxGap) }
PassLines ==
  { <<"C","A","S","E"," ","x",NL>>,
    <<"E","L","S","E"," ","I","F"," ","x"," ","T","H","E","N",NL>>,
    <<"x"," ","=","\"","a",NL>>,
    Rep("a", MAXTOKEN + 1) \o <<NL>>,
    (<<"\"">> \o Rep("a", MAXTOKEN + 1) \o <<"\"">>) \o <<NL>> }
PassSources ==
  { <<l>> : l \in PassLines \cup MiscLines \cup PieceLines }
  \cup { <<a, b>> : a \in OpenLines, b \in PassLines }

LexSources ==
  { <<l>> : l \in PairLines \cup GapLines \cup MiscLines }
  \cup { <<a, b>> : a \in OpenLines, b \in CloseLines }

(***************************************************************************)
(* Init: the ParseContext as set up for a pass (RewindInput has run, the   *)
(* list of included files is empty, nothing is buffered).                  *)
(***************************************************************************)
InitContext ==
  /\ lineBuf = <<>>
  /\ linePtr = 1
  /\ inComment = FALSE
  /\ savedToken = T_NONE
  /\ token = <<>>
  /\ value = 0
  /\ tokenOffset = 0
  /\ currentInclude = NULL
  /\ includedFiles = <<>>
  /\ fileStack = <<>>
  /\ mainOnStack = TRUE
  /\ mainLineNumber = 0
  /\ mainPos = 0
  /\ heap = [allocated |-> {}, open |-> {}, badFree |-> FALSE,
             badClose |-> FALSE]
  /\ last = Last("Init", "", "", 0, -1)
  /\ delivered = [lines |-> {}, twice |-> FALSE, opened |-> {}]
  /\ skipped = FALSE
  /\ control = "pass"
  /\ errors = <<>>
  /\ pass = 1
  /\ tokens = <<>>
  /\ firstPass = <<>>
  /\ lineDone = TRUE

Init ==
  /\ InitContext
  /\ mainSrc \in StackMainSources
  /\ fileSrc \in { f \in [Names -> UNION { StackFileSources(n) : n \in Names }] :
                     \A n \in Names : f[n] \in StackFileSources(n) }

InitLex ==
  /\ InitContext
  /\ mainSrc \in LexSources
  /\ fileSrc = [n \in Names |-> <<>>]

InitPass ==
  /\ InitContext
  /\ mainSrc \in PassSources
  /\ fileSrc = [n \in Names |-> <<>>]

\* the sources of the character runs
CharSources ==
  { <<l>> : l \in CloseLines \cup MiscLines }
  \cup { <<a, b>> : a \in OpenLines, b \in CloseLines }

InitChar ==
  /\ InitContext
  /\ mainSrc \in CharSources
  /\ fileSrc = [n \in Names |-> <<>>]

InitLit ==
  /\ InitContext
  /\ mainSrc \in LitSources
  /\ fileSrc = [n \in Names |-> <<>>]

(***************************************************************************)
(* The input file stack.                                                   *)
(***************************************************************************)
\* free(f)
FreeFrame(h, id) ==
  [h EXCEPT !.allocated = @ \ {id},
            !.badFree = @ \/ id \notin h.allocated]

\* fclose(f->u.file.fp); free(f)
CloseAndFree(h, id) ==
  FreeFrame([h EXCEPT !.open = @ \ {id},
                      !.badClose = @ \/ id \notin h.open], id)

\* the frame malloc(sizeof(ParseFile)) returns: one not in use
NewId(h) == CHOOSE i \in FrameIds \ h.allocated :
              \A j \in FrameIds \ h.allocated : i <= j

AllocFrame(h) == [h EXCEPT !.allocated = @ \cup {NewId(h)}]

\* RewindInput - rewind the main input
RewindInput ==
  /\ mainPos' = 0
  /\ mainLineNumber' = 0
  /\ fileStack' = <<>>
  /\ mainOnStack' = TRUE
  /\ last' = Last("RewindInput", "", "", 0, -1)
  /\ UNCHANGED << ctxVars, hostVars, currentInclude, includedFiles, heap,
                  delivered >>

\* PushFile on a name found in the list of included files
PushFileIncluded(name) ==
  /\ name \in Range(includedFiles)
  /\ last' = Last("PushFile", name, "TRUE", 0, -1)
  /\ UNCHANGED << ctxVars, stackVars, hostVars, delivered >>

\* (variant: the ParseFile is not freed when the open fails)
OpenFailedLeak(stack, h) == [fileStack |-> stack, heap |-> AllocFrame(h)]

\* what a failed xbOpenFileInPath leaves of the stack and the heap:
\* the ParseFile just allocated is freed, nothing is pushed
OpenFailed(stack, h) ==
  [fileStack |-> stack, heap |-> FreeFrame(AllocFrame(h), NewId(h))]

\* the push after a successful open
OpenSucceeded(stack, h, name) ==
  [fileStack |->
     << [id |-> NewId(h), file |-> name, dangling |-> FALSE, pos |-> 0,
         lineNumber |-> 0] >> \o stack,
   heap |-> [AllocFrame(h) EXCEPT !.open = @ \cup {NewId(h)}]]

\* inc->next = c->includedFiles; c->includedFiles = inc
Record(name, list) == <<name>> \o list

\* PushFile on a new name; outcome is what malloc and xbOpenFileInPath do
PushFileNew(name, outcome) ==
  /\ name \notin Range(includedFiles)
  /\ FrameIds \ heap.allocated # {}
  /\ IF outcome = "nomem_inc"
     THEN /\ last' = Last("PushFile", name, "FAIL", 0, -1)
          /\ UNCHANGED << stackVars, delivered >>
     ELSE /\ includedFiles' = Record(name, includedFiles)
          /\ IF outcome = "nomem_file"
             THEN /\ last' = Last("PushFile", name, "FAIL", 0, -1)
                  /\ UNCHANGED << fileStack, heap, currentInclude, delivered >>
             ELSE IF outcome = "open_failed"
             THEN LET r == OpenFailed(fileStack, heap) IN
                  /\ fileStack' = r.fileStack
                  /\ heap' = r.heap
                  /\ last' = Last("PushFile", name, "FALSE", 0, -1)
                  /\ UNCHANGED << currentInclude, delivered >>
             ELSE LET r == OpenSucceeded(fileStack, heap, name) IN
                  /\ fileStack' = r.fileStack
                  /\ heap' = r.heap
                  /\ currentInclude' = name
                  /\ delivered' = [delivered EXCEPT !.opened = @ \cup {name}]
                  /\ last' = Last("PushFile", name, "TRUE", 0, NewId(heap))
          /\ UNCHANGED << mainOnStack, mainLineNumber, mainPos >>
  /\ UNCHANGED << ctxVars, hostVars >>

PushOutcomes == { "ok", "open_failed", "nomem_inc", "nomem_file" }

\* PushFile - push a file onto the input file stack
PushFile(name) ==
  \/ PushFileIncluded(name)
  \/ \E outcome \in PushOutcomes : PushFileNew(name, outcome)

\* ClearIncludedFiles - clear the list of included files for the next pass;
\* the IncludedFile of every frame still stacked is freed under it
ClearIncludedFiles ==
  /\ includedFiles' = <<>>
  /\ currentInclude' = NULL
  /\ fileStack' = [i \in DOMAIN fileStack |->
                     [fileStack[i] EXCEPT !.dangling = TRUE]]
  /\ delivered' = [lines |-> {}, twice |-> FALSE, opened |-> {}]
  /\ last' = Last("ClearIncludedFiles", "", "", 0, -1)
  /\ UNCHANGED << ctxVars, hostVars, mainOnStack, mainLineNumber, mainPos,
                  heap >>

\* the loop of CloseParseContext: every frame down to mainFile or NULL
RECURSIVE CloseAll(_, _)
CloseAll(stack, h) ==
  IF stack = <<>> THEN h
  ELSE CloseAll(Tail(stack), CloseAndFree(h, Head(stack).id))

\* CloseParseContext - close a parse context
CloseParseContext ==
  /\ heap' = CloseAll(fileStack, heap)
  /\ fileStack' = <<>>
  /\ mainOnStack' = TRUE
  /\ currentInclude' = NULL
  /\ last' = Last("CloseParseContext", "", "", 0, -1)
  /\ UNCHANGED << ctxVars, hostVars, includedFiles, mainLineNumber, mainPos,
                  delivered >>

\* c->currentInclude after a pop: the file of the new top frame, if that
\* is an include file
IncludeOf(stack) ==
  IF stack = <<>> THEN NULL
  ELSE IF Head(stack).dangling THEN DANGLING
  ELSE Head(stack).file

\* (variant: a popped include file is neither closed nor freed)
ReleasePoppedLeak(h, id) == h

\* (variant: the main file is closed and freed like an include file)
ReleasePoppedAny(h, id) == CloseAndFree(h, id)

\* what GetLine does with the frame it just popped
ReleasePopped(h, id) ==
  IF id # MainId THEN CloseAndFree(h, id) ELSE h

\* the for (;;) loop of GetLine.  g is [fileStack, mainOnStack, mainPos,
\* heap, currentInclude, fetches]; the result adds ok, and on success the
\* raw line, the id of the frame that supplied it and that frame's name
RECURSIVE GetLineLoop(_, _, _)
GetLineLoop(g, main, files) ==
  IF g.fileStack = <<>> /\ ~g.mainOnStack
  THEN [g EXCEPT !.ok = FALSE]
  ELSE IF g.fileStack = <<>>
  THEN IF g.mainPos < Len(main)
       THEN [g EXCEPT !.ok = TRUE, !.line = main[g.mainPos + 1],
                      !.mainPos = @ + 1, !.fetches = @ + 1,
                      !.supplier = MainId]
       ELSE GetLineLoop(
              [g EXCEPT !.mainOnStack = FALSE, !.currentInclude = NULL,
                        !.heap = ReleasePopped(g.heap, MainId),
                        !.fetches = @ + 1],
              main, files)
  ELSE LET f == Head(g.fileStack) IN
       IF f.pos < Len(files[f.file])
       THEN [g EXCEPT !.ok = TRUE, !.line = files[f.file][f.pos + 1],
                      !.fileStack[1].pos = @ + 1, !.fetches = @ + 1,
                      !.supplier = f.id]
       ELSE GetLineLoop(
              [g EXCEPT !.fileStack = Tail(@),
                        !.currentInclude = IncludeOf(Tail(g.fileStack)),
                        !.heap = ReleasePopped(g.heap, f.id),
                        !.fetches = @ + 1],
              main, files)

\* "make sure the line is correctly terminated"
Terminate(line) ==
  IF Len(line) = 0 \/ line[Len(line)] # NL THEN Append(line, NL) ELSE line

\* ++f->lineNumber, for the frame f that supplied the line
CountLine(stack, mainNo, supplier) ==
  IF supplier = MainId
  THEN [fileStack |-> stack, mainLineNumber |-> mainNo + 1]
  ELSE [fileStack |-> [stack EXCEPT ![1].lineNumber = @ + 1],
        mainLineNumber |-> mainNo]

\* (variant: the lookahead token survives the refill)
KeepLookahead(saved) == saved

\* c->savedToken after a successful GetLine
ClearLookahead(saved) == T_NONE

\* the count of a delivered line of an include file
CountDelivery(d, g) ==
  IF g.supplier = MainId THEN d
  ELSE LET f == Head(g.fileStack) IN
       [d EXCEPT !.lines = @ \cup { <<f.file, f.pos>> },
                 !.twice = @ \/ <<f.file, f.pos>> \in d.lines]

\* GetLine after its loop, g being where the loop ended
GetLineOn(g) ==
  /\ mainOnStack' = g.mainOnStack
  /\ mainPos' = g.mainPos
  /\ heap' = g.heap
  /\ currentInclude' = g.currentInclude
  /\ IF g.ok
     THEN LET n == CountLine(g.fileStack, mainLineNumber, g.supplier) IN
          /\ lineBuf' = Terminate(g.line)
          /\ linePtr' = 1
          /\ fileStack' = n.fileStack
          /\ mainLineNumber' = n.mainLineNumber
          /\ savedToken' = ClearLookahead(savedToken)
          /\ delivered' = CountDelivery(delivered, g)
          /\ last' = Last("GetLine", savedToken, "TRUE", g.fetches,
                          g.supplier)
     ELSE /\ fileStack' = g.fileStack
          /\ last' = Last("GetLine", savedToken, "FALSE", g.fetches, -1)
          /\ UNCHANGED << lineBuf, linePtr, mainLineNumber, savedToken,
                          delivered >>
  /\ UNCHANGED << inComment, token, value, tokenOffset, includedFiles,
                  hostVars >>

\* GetLine - get the next input line
GetLine ==
  GetLineOn(GetLineLoop(
              [fileStack |-> fileStack, mainOnStack |-> mainOnStack,
               mainPos |-> mainPos, heap |-> heap,
               currentInclude |-> currentInclude, fetches |-> 0,
               ok |-> FALSE, line |-> <<>>, supplier |-> -1],
              mainSrc, fileSrc))

(***************************************************************************)
(* The token interface.                                                    *)
(***************************************************************************)
\* (variant: the saved token is handed out and stays saved)
TakeSavedKeep(saved) == [tkn |-> saved, savedToken |-> saved]

\* GetToken with a saved token: hand it out and clear it
TakeSaved(saved) == [tkn |-> saved, savedToken |-> T_NONE]

\* GetToken when a token was saved, t being what TakeSaved returned
GetTokenSaved(t) ==
  /\ savedToken' = t.savedToken
  /\ last' = Last("GetToken", "saved", t.tkn, 0, -1)
  /\ UNCHANGED << lineBuf, linePtr, inComment, token, value, tokenOffset,
                  stackVars, hostVars, delivered >>

\* GetToken when none was saved, r being what NextToken returned and off
\* the token offset it set
GetTokenNext(r, off) ==
  /\ linePtr' = r.ptr
  /\ inComment' = r.inComment
  /\ token' = r.token
  /\ value' = r.value
  /\ tokenOffset' = off
  /\ last' = Last("GetToken", "next",
                  IF r.err = NoError THEN r.tkn ELSE "FAIL", 0, -1)
  /\ UNCHANGED << lineBuf, savedToken, stackVars, hostVars, delivered >>

\* GetToken - get the next token
GetToken ==
  IF savedToken # T_NONE
  THEN GetTokenSaved(TakeSaved(savedToken))
  ELSE GetTokenNext(NextToken(lineBuf, linePtr, inComment, token, value),
                    TokenOffset(lineBuf, linePtr, inComment))

\* SaveToken - save a token
SaveToken(tkn) ==
  /\ savedToken' = tkn
  /\ last' = Last("SaveToken", tkn, "", 0, -1)
  /\ UNCHANGED << lineBuf, linePtr, inComment, token, value, tokenOffset,
                  stackVars, hostVars, delivered >>

\* the cases of TokenName that take the name from the keyword table
KeywordCases ==
  { "T_REM", "T_INCLUDE", "T_OPTION", "T_DEF", "T_DIM", "T_AS", "T_IN",
    "T_LET", "T_IF", "T_THEN", "T_ELSE", "T_SELECT", "T_END", "T_FOR",
    "T_TO", "T_STEP", "T_NEXT", "T_DO", "T_WHILE", "T_UNTIL", "T_LOOP",
    "T_GOTO", "T_MOD", "T_AND", "T_OR", "T_XOR", "T_NOT", "T_STOP",
    "T_RETURN", "T_INPUT", "T_PRINT", "T_ASM" }

\* token - T_REM: the keyword kinds are numbered in the order of ktab
\* ("these must be in the same order as the int enum")
KeywordOrdinal(tkn) == CHOOSE i \in DOMAIN ktab : ktab[i].token = tkn

\* the cases of TokenName with a name of their own
NamedCases ==
  [ T_NONE         |-> <<"<","N","O","N","E",">">>,
    T_END_DEF      |-> <<"E","N","D"," ","D","E","F">>,
    T_END_IF       |-> <<"E","N","D"," ","I","F">>,
    T_END_SELECT   |-> <<"E","N","D"," ","S","E","L","E","C","T">>,
    T_END_ASM      |-> <<"E","N","D"," ","A","S","M">>,
    T_DO_WHILE     |-> <<"D","O"," ","W","H","I","L","E">>,
    T_DO_UNTIL     |-> <<"D","O"," ","U","N","T","I","L">>,
    T_LOOP_WHILE   |-> <<"L","O","O","P"," ","W","H","I","L","E">>,
    T_LOOP_UNTIL   |-> <<"L","O","O","P"," ","U","N","T","I","L">>,
    T_LE           |-> <<"<","=">>,
    T_NE           |-> <<"<",">">>,
    T_GE           |-> <<">","=">>,
    T_SHL          |-> <<"<","<">>,
    T_SHR          |-> <<">",">">>,
    T_IDENTIFIER   |-> <<"<","I","D","E","N","T","I","F","I","E","R",">">>,
    T_NUMBER       |-> <<"<","N","U","M","B","E","R",">">>,
    T_STRING       |-> <<"<","S","T","R","I","N","G",">">>,
    T_EOL          |-> <<"<","E","O","L",">">>,
    T_EOF          |-> <<"<","E","O","F",">">> ]

\* nameBuf[1] = token: the character itself for a single-character token,
\* the low byte of the enum value for any other kind
LowByte == "LOWBYTE"
CharOfToken(tkn) == IF tkn \in Range(AsciiSeq) THEN tkn ELSE LowByte

\* TokenName - get the name of a token
TokenName(tkn) ==
  IF tkn \in DOMAIN NamedCases THEN NamedCases[tkn]
  ELSE IF tkn \in KeywordCases THEN ktab[KeywordOrdinal(tkn)].keyword
  ELSE <<"'", CharOfToken(tkn), "'">>

\* a diagnostic: the format and its two arguments
Diagnostic(fmt, a, b) == [fmt |-> fmt, expected |-> a, found |-> b]

\* (variant: ParseError returns to its caller)
ParseErrorReturns(ctl, errs, d) ==
  [control |-> ctl, errors |-> Append(errs, d)]

\* ParseError - report a parsing error: the message is printed and longjmp
\* takes control to errorTarget
ParseError(ctl, errs, d) ==
  [control |-> "recovery", errors |-> Append(errs, d)]

\* the call of ParseError in an operation of the pass
Raise(d) ==
  /\ control' = ParseError(control, errors, d).control
  /\ errors' = ParseError(control, errors, d).errors

\* Require - check for a required token
Require(tkn, requiredToken) ==
  /\ last' = Last("Require", requiredToken,
                  IF tkn # requiredToken THEN "FAIL" ELSE "", 0, -1)
  /\ IF tkn # requiredToken
     THEN Raise(Diagnostic("Expecting '%s', found '%s'",
                           TokenName(requiredToken), TokenName(tkn)))
     ELSE UNCHANGED << control, errors >>
  /\ UNCHANGED << ctxVars, stackVars, hostVars, delivered >>

(***************************************************************************)
(* The specifications.  Spec drives the input file stack; SpecRefill       *)
(* drives includes, line refills and the token interface together;         *)
(* SpecLex drives the scanner over the lines of the main file.             *)
(***************************************************************************)
Next ==
  \/ RewindInput /\ UNCHANGED << skipped, passVars >>
  \/ \E name \in Names : PushFile(name) /\ UNCHANGED << skipped, passVars >>
  \/ ClearIncludedFiles /\ UNCHANGED << skipped, passVars >>
  \/ CloseParseContext /\ UNCHANGED << skipped, passVars >>
  \/ GetLine /\ UNCHANGED << skipped, passVars >>

Spec == Init /\ [][Next]_vars

NextRefill ==
  \/ \E name \in Names : PushFile(name) /\ UNCHANGED << skipped, passVars >>
  \/ GetLine /\ UNCHANGED << skipped, passVars >>
  \/ GetToken /\ UNCHANGED << skipped, passVars >>
  \/ \E tkn \in SaveKinds : SaveToken(tkn) /\ UNCHANGED << skipped, passVars >>

SpecRefill == Init /\ [][NextRefill]_vars

\* the line in the buffer has been scanned to its end
LineScanned ==
  \/ lineBuf = <<>>
  \/ last.op = "GetToken" /\ last.ret = T_EOL
  \/ last.op = "GetLine" /\ last.ret = "FALSE"

NextLex ==
  \/ GetLine /\ skipped' = (skipped \/ ~LineScanned)
     /\ UNCHANGED passVars
  \/ GetToken /\ UNCHANGED << skipped, passVars >>

SpecLex == InitLex /\ [][NextLex]_vars

\* SpecLit drives the scanner over lines of literals
NextLit ==
  \/ GetLine /\ skipped' = (skipped \/ ~LineScanned)
     /\ UNCHANGED passVars
  \/ GetToken /\ UNCHANGED << skipped, passVars >>

SpecLit == InitLit /\ [][NextLit]_vars

(***************************************************************************)
(* SpecPass drives two passes of a compiler over the main file: a pass     *)
(* fetches a line, asks for its tokens up to the end of the line, checks   *)
(* some of them with Require, saves some of them back and pushes one       *)
(* include file between two lines; it ends at the end of the input or at   *)
(* the recovery point.  It can be given up anywhere; the input is then     *)
(* rewound and the list of included files cleared for the second pass.     *)
(***************************************************************************)
\* the kinds the parser requires
RequireKinds == { T_IDENTIFIER, "T_CASE", "T_ELSE_IF", "T_THEN", "=" }

PassLine ==
  /\ control = "pass"
  /\ lineDone
  /\ last.op # "RewindInput"
  /\ GetLine
  /\ lineDone' = (last'.ret = "FALSE")
  /\ control' = IF last'.ret = "FALSE" THEN "end" ELSE control
  /\ UNCHANGED << skipped, errors, pass, tokens, firstPass >>

PassToken ==
  /\ control = "pass"
  /\ ~lineDone \/ (savedToken # T_NONE /\ tokens # <<>>)
  /\ GetToken
  /\ IF last'.ret = "FAIL"
     THEN /\ Raise(Diagnostic(
                     NextToken(lineBuf, linePtr, inComment, token, value).err,
                     <<>>, <<>>))
          /\ UNCHANGED << tokens, lineDone >>
     ELSE /\ tokens' = IF last'.arg = "next" THEN Append(tokens, last'.ret)
                       ELSE tokens
          /\ lineDone' = IF last'.arg = "next" THEN last'.ret = T_EOL
                         ELSE lineDone
          /\ UNCHANGED << control, errors >>
  /\ UNCHANGED << skipped, pass, firstPass >>

PassRequire(requiredToken) ==
  /\ control = "pass"
  /\ last.op = "GetToken"
  /\ last.ret # "FAIL"
  /\ Require(last.ret, requiredToken)
  /\ UNCHANGED << skipped, pass, tokens, firstPass, lineDone >>

PassSave ==
  /\ control = "pass"
  /\ last.op = "GetToken"
  /\ last.ret # "FAIL"
  /\ savedToken = T_NONE
  /\ SaveToken(last.ret)
  /\ UNCHANGED << skipped, passVars >>

PassInclude(name) ==
  /\ control = "pass"
  /\ lineDone
  /\ last.op # "RewindInput"
  /\ includedFiles = <<>>
  /\ fileStack = <<>>
  /\ PushFile(name)
  /\ IF last'.ret = "FAIL"
     THEN Raise(Diagnostic("insufficient memory", <<>>, <<>>))
     ELSE UNCHANGED << control, errors >>
  /\ UNCHANGED << skipped, pass, tokens, firstPass, lineDone >>

PassRewind ==
  /\ pass = 1
  /\ RewindInput
  /\ pass' = 2
  /\ firstPass' = tokens
  /\ tokens' = <<>>
  /\ errors' = <<>>
  /\ control' = "pass"
  /\ lineDone' = TRUE
  /\ UNCHANGED skipped

PassClear ==
  /\ last.op = "RewindInput"
  /\ ClearIncludedFiles
  /\ UNCHANGED << skipped, passVars >>

NextPass ==
  \/ PassLine
  \/ PassToken
  \/ \E requiredToken \in RequireKinds : PassRequire(requiredToken)
  \/ PassSave
  \/ \E name \in Names : PassInclude(name)
  \/ PassRewind
  \/ PassClear

SpecPass == InitPass /\ [][NextPass]_vars

(***************************************************************************)
(* SpecChar drives the character reader over the lines of the main file:   *)
(* a caller reads with GetChar or XGetC and ungets the character it has    *)
(* just read.  The history of UngetC keeps the call it undoes: its name,   *)
(* what it returned and the pointer it left.                               *)
(***************************************************************************)
\* a call of GetChar, r being what it returns
GetCharCall(r) ==
  /\ linePtr' = r.ptr
  /\ inComment' = r.inComment
  /\ last' = Last("GetChar", "", r.ch, 0, -1)
  /\ UNCHANGED << lineBuf, savedToken, token, value, tokenOffset, stackVars,
                  hostVars, delivered >>

\* a call of XGetC, r being what it returns
XGetCCall(r) ==
  /\ linePtr' = r.ptr
  /\ last' = Last("XGetC", "", r.ch, 0, -1)
  /\ UNCHANGED << lineBuf, inComment, savedToken, token, value, tokenOffset,
                  stackVars, hostVars, delivered >>

\* a call of UngetC on the character just read
UngetCCall ==
  /\ last.op \in {"GetChar", "XGetC"}
  /\ linePtr' = UngetC(linePtr)
  /\ last' = Last("UngetC", last.op, last.ret, linePtr, -1)
  /\ UNCHANGED << lineBuf, inComment, savedToken, token, value, tokenOffset,
                  stackVars, hostVars, delivered >>

NextChar ==
  \/ GetLine /\ UNCHANGED << skipped, passVars >>
  \/ lineBuf # <<>> /\ GetCharCall(GetChar(lineBuf, linePtr, inComment))
     /\ UNCHANGED << skipped, passVars >>
  \/ lineBuf # <<>> /\ XGetCCall(XGetC(lineBuf, linePtr))
     /\ UNCHANGED << skipped, passVars >>
  \/ UngetCCall /\ UNCHANGED << skipped, passVars >>

SpecChar == InitChar /\ [][NextChar]_vars

(***************************************************************************)
(* Reference reading of the source text, used to state the properties.     *)
(* It works on positions of a line and does not use the character reader.  *)
(***************************************************************************)
\* the positions from i on that lie outside comments, in order, and whether
\* the line ends inside a block comment; inBlock: position i is inside one
RECURSIVE RefScanFrom(_, _, _, _)
RefScanFrom(buf, i, inBlock, vis) ==
  IF i > Len(buf) THEN [vis |-> vis, open |-> inBlock]
  ELSE IF inBlock
  THEN IF i < Len(buf) /\ buf[i] = "*" /\ buf[i + 1] = "/"
       THEN RefScanFrom(buf, i + 2, FALSE, vis)
       ELSE RefScanFrom(buf, i + 1, TRUE, vis)
  ELSE IF i < Len(buf) /\ buf[i] = "/" /\ buf[i + 1] = "/"
  THEN [vis |-> vis, open |-> FALSE]
  ELSE IF i < Len(buf) /\ buf[i] = "/" /\ buf[i + 1] = "*"
  THEN RefScanFrom(buf, i + 2, TRUE, vis)
  ELSE RefScanFrom(buf, i + 1, FALSE, Append(vis, i))

RefScan(buf, i, inBlock) == RefScanFrom(buf, i, inBlock, <<>>)

\* the lines k.. of src hold nothing but blanks and comments
RECURSIVE RefCommentOnly(_, _, _)
RefCommentOnly(src, k, inBlock) ==
  \/ k > Len(src)
  \/ LET r == RefScan(src[k], 1, inBlock)
     IN /\ \A j \in DOMAIN r.vis :
             src[k][r.vis[j]] \in { " ", "\t", "\n", "\r", "\f" }
        /\ RefCommentOnly(src, k + 1, r.open)

\* the word that starts at or after the k-th visible character: blanks are
\* passed over, the word is the longest run of identifier characters;
\* stop is the index in vis of the visible character after the word
RefWord(buf, vis, k) ==
  LET Ch(j) == buf[vis[j]]
      n == Len(vis)
      start == CHOOSE j \in k..(n + 1) :
                 /\ j = n + 1 \/ ~isspace(Ch(j))
                 /\ \A i \in k..(j - 1) : isspace(Ch(i))
      stop == CHOOSE e \in start..(n + 1) :
                /\ e = n + 1 \/ ~IdentifierCharP(Ch(e))
                /\ \A i \in start..(e - 1) : IdentifierCharP(Ch(i))
  IN [word |-> [i \in 1..(stop - start) |-> Ch(start + i - 1)],
      stop |-> stop]

RefUpperCase(w) ==
  [i \in DOMAIN w |->
     IF w[i] \in Range(LowerSeq)
     THEN UpperSeq[CHOOSE j \in DOMAIN LowerSeq : LowerSeq[j] = w[i]]
     ELSE w[i]]

\* the nine pairs of words and the compound kind of each
RefPairs ==
  { <<WELSE, WIF, "T_ELSE_IF">>,
    <<WEND, WDEF, "T_END_DEF">>,
    <<WEND, WIF, "T_END_IF">>,
    <<WEND, WSELECT, "T_END_SELECT">>,
    <<WEND, WASM, "T_END_ASM">>,
    <<WDO, WWHILE, "T_DO_WHILE">>,
    <<WDO, WUNTIL, "T_DO_UNTIL">>,
    <<WLOOP, WWHILE, "T_LOOP_WHILE">>,
    <<WLOOP, WUNTIL, "T_LOOP_UNTIL">> }

RefCompoundKinds ==
  { "T_ELSE_IF", "T_END_DEF", "T_END_IF", "T_END_SELECT", "T_END_ASM",
    "T_DO_WHILE", "T_DO_UNTIL", "T_LOOP_WHILE", "T_LOOP_UNTIL" }

\* the pairs of RefPairs that the next two words in the buffer spell
RefPairsAhead ==
  LET vis == RefScan(lineBuf, linePtr, inComment).vis
      w1 == RefWord(lineBuf, vis, 1)
      w2 == RefWord(lineBuf, vis, w1.stop)
  IN { p \in RefPairs : /\ RefUpperCase(w1.word) = p[1]
                        /\ RefUpperCase(w2.word) = p[2] }

\* the position right after the last character of the second word
RefJustPast ==
  LET vis == RefScan(lineBuf, linePtr, inComment).vis
      w1 == RefWord(lineBuf, vis, 1)
      w2 == RefWord(lineBuf, vis, w1.stop)
  IN vis[w2.stop - 1] + 1

\* the first position after the second word that is outside comments; when
\* a comment after the word runs to the end of the line, the last position
\* of the line
RefLanding ==
  LET vis == RefScan(lineBuf, linePtr, inComment).vis
      w1 == RefWord(lineBuf, vis, 1)
      w2 == RefWord(lineBuf, vis, w1.stop)
  IN IF w2.stop <= Len(vis) THEN vis[w2.stop] ELSE Len(lineBuf)

(***************************************************************************)
(* Properties of the token recognizer (SpecLex).                           *)
(***************************************************************************)
\* the step is a GetToken that recognized ELSE, END, DO or LOOP and
\* returned it as the simple keyword
C1_SimpleReturned ==
  LET s == SkipSpaces(lineBuf, linePtr, inComment)
      first == IdentifierToken(lineBuf, s.ptr, s.inComment, s.ch, value)
  IN /\ last'.op = "GetToken" /\ last'.arg = "next"
     /\ s.ch # EOF /\ ~isdigit(s.ch) /\ IdentifierCharP(s.ch)
     /\ first.err = NoError
     /\ first.tkn \in { "T_ELSE", "T_END", "T_DO", "T_LOOP" }
     /\ last'.ret = first.tkn

\* the cursor after the step is where it was right after the first word,
\* and the next token is the one a scan from the state right after the
\* first word returns
C1_Restored ==
  LET s == SkipSpaces(lineBuf, linePtr, inComment)
      first == IdentifierToken(lineBuf, s.ptr, s.inComment, s.ch, value)
  IN /\ linePtr' = first.ptr
     /\ NextToken(lineBuf, linePtr', inComment', token', value').tkn
          = NextToken(lineBuf, first.ptr, first.inComment, token', value').tkn

\* C1: when GetToken has recognized ELSE, END, DO or LOOP and returns it as
\* the simple keyword because no pair is completed, the scan state is what
\* it was right after the first word: the cursor is back there and the next
\* GetToken returns the token a scan started from that state returns.
C1_RollbackRestores == [][C1_SimpleReturned => C1_Restored]_vars

\* END x/* has been scanned to END: the cursor is back after END, the flag
\* is left set by the comment after x
C1_RolledBackInComment ==
  /\ lineBuf = <<"E", "N", "D", " ", "x", "/", "*", NL>>
  /\ last.op = "GetToken" /\ last.ret = "T_END"
  /\ linePtr = 4
  /\ inComment

\* C2 (as stated): when the next two words spell one of the nine pairs, the
\* GetToken call returns the compound kind with the cursor just past the
\* second word; no other pair of words produces a compound kind.
C2_CursorJustPast ==
  [][(last'.op = "GetToken" /\ last'.arg = "next") =>
       /\ \A p \in RefPairsAhead :
            last'.ret = p[3] /\ linePtr' = RefJustPast
       /\ last'.ret \in RefCompoundKinds =>
            \E p \in RefPairsAhead : last'.ret = p[3]]_vars

\* C2 (amended): when the next two words (comments elided, case ignored)
\* spell one of the nine pairs, the GetToken call returns the compound kind
\* with the cursor on the first character after the second word that is
\* outside comments, or on the last character of the line when a comment
\* after the word runs to the end of the line; no other pair of words
\* produces a compound kind.
C2_CompoundMerge ==
  [][(last'.op = "GetToken" /\ last'.arg = "next") =>
       /\ \A p \in RefPairsAhead :
            last'.ret = p[3] /\ linePtr' = RefLanding
       /\ last'.ret \in RefCompoundKinds =>
            \E p \in RefPairsAhead : last'.ret = p[3]]_vars

\* END IF was merged with an unterminated comment right after IF: the
\* cursor is on the last character of the line, not just past IF
C2_MergedBeforeComment ==
  /\ last.op = "GetToken" /\ last.ret = "T_END_IF"
  /\ inComment
  /\ linePtr = Len(lineBuf)
  /\ linePtr > 7

\* C10: when the source holds nothing but blanks, // comments and block
\* comments (closed on the same line, on a later line, or never) and each
\* line is scanned to its end before the next is fetched, every GetToken
\* returns end-of-line.
C10_CommentsOnly ==
  (RefCommentOnly(mainSrc, 1, FALSE) /\ ~skipped /\ last.op = "GetToken")
    => last.ret = T_EOL

\* a block comment opened on the first line was closed on the second, which
\* has been scanned to its end
C10_ClosedOnSecondLine ==
  /\ RefCommentOnly(mainSrc, 1, FALSE)
  /\ ~skipped
  /\ mainPos = 2
  /\ RefScan(mainSrc[1], 1, FALSE).open
  /\ ~inComment
  /\ last.op = "GetToken"
  /\ linePtr > Len(lineBuf)

(***************************************************************************)
(* Properties of the input file stack (Spec).                              *)
(***************************************************************************)
\* PushFile on a name in the list of included files returns TRUE and
\* changes nothing
C3_NoOp ==
  (last'.op = "PushFile" /\ last'.arg \in Range(includedFiles)) =>
    /\ last'.ret = "TRUE"
    /\ UNCHANGED << includedFiles, currentInclude, fileStack, mainOnStack,
                    mainLineNumber, mainPos, heap, lineBuf, linePtr >>

\* C3: PushFile of a name already in the list of included files returns
\* TRUE and changes nothing (no file opened, no frame pushed, list and
\* current frame unchanged); consequently, between two ClearIncludedFiles
\* calls no line of a named file is delivered twice.
C3_IncludedOnce == [][C3_NoOp]_vars /\ [](~delivered.twice)

\* a line of an include file has been delivered a second time since the
\* last ClearIncludedFiles
C3_DeliveredTwice ==
  /\ delivered.twice
  /\ last.op = "GetLine" /\ last.ret = "TRUE"

\* C4: a PushFile of a new name whose file cannot be opened returns FALSE
\* and leaves the stack as it was: the frames, their order and their line
\* counters are unchanged, and no ParseFile stays allocated.
C4_OpenFailedUnchanged ==
  [][(last'.op = "PushFile" /\ last'.ret = "FALSE") =>
       /\ last'.arg \notin Range(includedFiles)
       /\ fileStack' = fileStack
       /\ mainOnStack' = mainOnStack
       /\ mainLineNumber' = mainLineNumber
       /\ currentInclude' = currentInclude
       /\ heap' = heap]_vars

\* an open failed while an include file was on the stack
C4_FailedAboveFrame ==
  /\ last.op = "PushFile" /\ last.ret = "FALSE"
  /\ fileStack # <<>>
  /\ heap.allocated # {}

\* what C5 expects of a GetLine step, from the stack before it: the frames
\* above the first one that still has a line are popped, closed and freed,
\* that frame supplies its next line; FALSE only with nothing left
C5_Delivers ==
  LET n == Len(fileStack)
      live == { i \in 1..n :
                  fileStack[i].pos < Len(fileSrc[fileStack[i].file]) }
      k == IF live = {} THEN n + 1
           ELSE CHOOSE i \in live : \A j \in live : i <= j
      popped == { fileStack[i].id : i \in 1..(k - 1) }
      depth == n + (IF mainOnStack THEN 1 ELSE 0)
  IN /\ last'.fetches <= depth
     /\ heap'.allocated = heap.allocated \ popped
     /\ heap'.open = heap.open \ popped
     /\ heap'.badFree = heap.badFree
     /\ heap'.badClose = heap.badClose
     /\ IF live # {}
        THEN LET raw == fileSrc[fileStack[k].file][fileStack[k].pos + 1] IN
             /\ last'.ret = "TRUE"
             /\ last'.supplier = fileStack[k].id
             /\ last'.fetches = k
             /\ Len(fileStack') = n - k + 1
             /\ fileStack'[1].id = fileStack[k].id
             /\ fileStack'[1].pos = fileStack[k].pos + 1
             /\ \A i \in 2..(n - k + 1) : fileStack'[i] = fileStack[k + i - 1]
             /\ SubSeq(lineBuf', 1, Len(raw)) = raw
             /\ mainOnStack' = mainOnStack /\ mainPos' = mainPos
        ELSE IF mainOnStack /\ mainPos < Len(mainSrc)
        THEN /\ last'.ret = "TRUE"
             /\ last'.supplier = MainId
             /\ fileStack' = <<>>
             /\ SubSeq(lineBuf', 1, Len(mainSrc[mainPos + 1]))
                  = mainSrc[mainPos + 1]
             /\ mainOnStack' /\ mainPos' = mainPos + 1
        ELSE /\ last'.ret = "FALSE"
             /\ fileStack' = <<>>
             /\ lineBuf' = lineBuf
             /\ mainPos' = Len(mainSrc)

\* C5: GetLine delivers the next line of the topmost frame that still has
\* input; every frame above it is popped in stack order, an include file
\* closed and freed; it returns FALSE only when the main file is exhausted
\* too, and asks for a line at most (stack depth) times.
C5_PopsInOrder == [][last'.op = "GetLine" => C5_Delivers]_vars

\* GetLine popped two include files at their end and delivered a line of
\* the main file
C5_PoppedToMain ==
  /\ last.op = "GetLine" /\ last.ret = "TRUE"
  /\ last.supplier = MainId
  /\ last.fetches >= 3

\* the main file leaves the stack only in a GetLine that returns FALSE,
\* RewindInput and CloseParseContext put it back, and it is never freed
C7_Step ==
  /\ ~heap'.badFree
  /\ (mainOnStack /\ ~mainOnStack') =>
       (last'.op = "GetLine" /\ last'.ret = "FALSE" /\ fileStack' = <<>>)
  /\ last'.op \in { "RewindInput", "CloseParseContext" } => mainOnStack'
  /\ (~mainOnStack /\ ~mainOnStack') =>
       last'.op \in { "PushFile", "ClearIncludedFiles", "GetLine" }

\* C7 (as stated): in every reachable state, also after GetLine has
\* returned FALSE, the main file is at the bottom of the input stack and
\* has not been freed.
C7_MainAlwaysOnStack == mainOnStack /\ ~heap.badFree

\* C7 (amended): the main file is never freed, and it is at the bottom of
\* the input stack except after GetLine has reported the end of the overall
\* input: that GetLine pops it and leaves the stack empty, and it is back
\* at the bottom only after the next RewindInput or CloseParseContext.
C7_MainFrame ==
  /\ [](/\ ~heap.badFree
        /\ last.op = "Init" => mainOnStack
        /\ ~mainOnStack => mainPos = Len(mainSrc))
  /\ [][C7_Step]_vars

\* an include file was pushed after the end of the input: nothing is
\* beneath its frame
C7_FrameWithoutMain ==
  /\ ~mainOnStack
  /\ fileStack # <<>>
  /\ last.op = "PushFile"

\* C8: every handle PushFile opened is closed exactly once, by the pop in
\* GetLine or by CloseParseContext: none is closed twice, and after
\* CloseParseContext none is open, no ParseFile is allocated and the stack
\* is the main file alone.
C8_ReleasedOnce ==
  /\ ~heap.badClose
  /\ ~heap.badFree
  /\ last.op = "CloseParseContext" =>
       /\ heap.open = {}
       /\ heap.allocated = {}
       /\ fileStack = <<>>
       /\ mainOnStack

\* CloseParseContext has returned and a file PushFile opened is still open
C8_OpenAfterClose ==
  /\ last.op = "CloseParseContext"
  /\ heap.open # {}

(***************************************************************************)
(* Properties of refill and lookahead (SpecRefill).                        *)
(***************************************************************************)
\* the line counter of the frame that supplied the line grew by one, no
\* other counter changed
C6_Counted ==
  LET sup == last'.supplier
      Was(id) == CHOOSE j \in DOMAIN fileStack : fileStack[j].id = id
  IN /\ mainLineNumber' = mainLineNumber + (IF sup = MainId THEN 1 ELSE 0)
     /\ \A i \in DOMAIN fileStack' :
          /\ \E j \in DOMAIN fileStack : fileStack[j].id = fileStack'[i].id
          /\ fileStack'[i].lineNumber =
               fileStack[Was(fileStack'[i].id)].lineNumber
                 + (IF fileStack'[i].id = sup THEN 1 ELSE 0)
     /\ sup # MainId => fileStack' # <<>> /\ fileStack'[1].id = sup

\* C6: after every successful GetLine the line counter of exactly the frame
\* that supplied the line has grown by one, the line buffer ends with a
\* newline, the cursor is at the start of the line and the saved token is
\* NONE, so the GetToken after a refill reads the line and does not return
\* a token saved before it.
C6_Refill ==
  [][/\ (last'.op = "GetLine" /\ last'.ret = "TRUE") =>
          /\ C6_Counted
          /\ lineBuf' # <<>> /\ lineBuf'[Len(lineBuf')] = NL
          /\ linePtr' = 1
          /\ savedToken' = T_NONE
     /\ (last.op = "GetLine" /\ last.ret = "TRUE" /\ last'.op = "GetToken") =>
          last'.arg = "next"]_vars

\* an include file above another one supplied a line while a saved token
\* was pending
C6_RefilledOverSaved ==
  /\ last.op = "GetLine" /\ last.ret = "TRUE"
  /\ last.arg = "T_IF"
  /\ last.supplier # MainId
  /\ Len(fileStack) = 2
  /\ fileStack[1].lineNumber = 1 /\ fileStack[2].lineNumber = 0

\* C9: GetToken with a token k saved by SaveToken returns k, leaves the
\* cursor, the in-block-comment flag, the spelling buffer and the value
\* unchanged and clears the saved token; with no token saved GetToken
\* recognizes from the line.
C9_SavedToken ==
  [][/\ (last'.op = "GetToken" /\ savedToken # T_NONE) =>
          /\ last'.ret = savedToken
          /\ last'.arg = "saved"
          /\ savedToken' = T_NONE
          /\ UNCHANGED << lineBuf, linePtr, inComment, token, value,
                          tokenOffset >>
     /\ (last'.op = "GetToken" /\ savedToken = T_NONE) =>
          /\ last'.arg = "next"
          /\ savedToken' = T_NONE]_vars

\* a saved IF was handed out in the middle of a line, and nothing is saved
C9_HandedOut ==
  /\ last.op = "GetToken" /\ last.arg = "saved" /\ last.ret = "T_IF"
  /\ savedToken = T_NONE
  /\ linePtr = 2

(***************************************************************************)
(* Properties of the block-comment flag (SpecLex).                         *)
(***************************************************************************)
\* whether line k of src starts inside a block comment, by the reference
\* reading of the lines before it
RECURSIVE RefOpenBefore(_, _)
RefOpenBefore(src, k) ==
  IF k <= 1 THEN FALSE
  ELSE RefScan(src[k - 1], 1, RefOpenBefore(src, k - 1)).open

\* the reference reading of the line in the buffer, from its start
RefLine == RefScan(lineBuf, 1, RefOpenBefore(mainSrc, mainPos))

\* C11: the flag is set when a line has been scanned to its end inside a
\* block comment that is not closed, a refill leaves it as it is, it is
\* cleared only by a scan that passes a closing */, and no token starts on
\* a character that lies between a /* and its */ (lines scanned in order).
C11_BlockComment ==
  [][/\ (last'.op = "GetToken" /\ last'.ret = T_EOL /\ ~skipped) =>
          inComment' = RefLine.open
     /\ last'.op = "GetLine" => inComment' = inComment
     /\ (inComment /\ ~inComment') =>
          /\ last'.op = "GetToken"
          /\ \E i \in linePtr..(linePtr' - 2) :
               lineBuf[i] = "*" /\ lineBuf[i + 1] = "/"
     /\ (/\ last'.op = "GetToken" /\ last'.arg = "next" /\ ~skipped
         /\ last'.ret \notin { T_EOL, "FAIL" }) =>
          tokenOffset' \in Range(RefLine.vis)]_vars

\* on END /*/IF*/x/* the second GetToken returned the IF that lies inside
\* the comment
C11_TokenInsideComment ==
  /\ lineBuf = <<"E","N","D"," ","/","*","/","I","F","*","/","x","/","*",NL>>
  /\ ~skipped
  /\ last.op = "GetToken" /\ last.ret = "T_IF"
  /\ tokenOffset = 8

(***************************************************************************)
(* Properties of the literal scanners (SpecLit).                           *)
(***************************************************************************)
\* the position of the first character at or after the cursor that is
\* outside comments and not a blank; 0 when the line has none
RefStart ==
  LET vis == RefScan(lineBuf, linePtr, inComment).vis
      nb == { j \in DOMAIN vis : ~isspace(lineBuf[vis[j]]) }
  IN IF nb = {} THEN 0
     ELSE vis[CHOOSE j \in nb : \A k \in nb : j <= k]

\* the character a backslash pair stands for
RefEscape(ch) ==
  IF ch = "n" THEN "\n" ELSE IF ch = "r" THEN "\r"
  ELSE IF ch = "t" THEN "\t" ELSE ch

\* the contents of a string literal whose first character is at position
\* i: the raw characters up to the first unescaped quote, each backslash
\* pair replaced by one character; closed says that the quote was found,
\* stop is the position after it; a backslash that is the last character
\* of buf stands for itself, and dangling says that there was one
RECURSIVE RefString(_, _, _)
RefString(buf, i, acc) ==
  IF i > Len(buf)
  THEN [chars |-> acc, closed |-> FALSE, stop |-> i, dangling |-> FALSE]
  ELSE IF buf[i] = "\""
  THEN [chars |-> acc, closed |-> TRUE, stop |-> i + 1, dangling |-> FALSE]
  ELSE IF buf[i] = "\\"
  THEN IF i + 1 > Len(buf)
       THEN [chars |-> Append(acc, "\\"), closed |-> FALSE, stop |-> i + 1,
             dangling |-> TRUE]
       ELSE RefString(buf, i + 2, Append(acc, RefEscape(buf[i + 1])))
  ELSE RefString(buf, i + 1, Append(acc, buf[i]))

\* the step is a GetToken that scans a token from the line
ScanStep == last'.op = "GetToken" /\ last'.arg = "next"

\* the ParseError message of the scan that the step makes
ScanError == NextToken(lineBuf, linePtr, inComment, token, value).err

\* what C12 says of a scan that starts on an identifier or on a string
C12_Step ==
  LET p == RefStart
      w == RefWord(lineBuf, RefScan(lineBuf, linePtr, inComment).vis, 1).word
      r == RefString(lineBuf, p + 1, <<>>)
  IN /\ (p > 0 /\ IdentifierCharP(lineBuf[p]) /\ ~isdigit(lineBuf[p])) =>
          /\ Len(w) > MAXTOKEN =>
               last'.ret = "FAIL" /\ ScanError = "Identifier too long"
          /\ Len(w) = MAXTOKEN =>
               last'.ret = T_IDENTIFIER /\ token' = w
     /\ (p > 0 /\ lineBuf[p] = "\"") =>
          /\ Len(r.chars) > MAXTOKEN =>
               last'.ret = "FAIL" /\ ScanError = "String too long"
          /\ (Len(r.chars) = MAXTOKEN /\ r.closed) =>
               last'.ret = T_STRING /\ token' = r.chars

\* C12: the spelling buffer never holds more than MAXTOKEN characters,
\* whatever token wrote it; an identifier or a string longer than MAXTOKEN
\* fails as too long, one of exactly MAXTOKEN characters is accepted whole.
C12_SpellingBounded ==
  /\ [](Len(token) <= MAXTOKEN)
  /\ [][ScanStep => C12_Step]_vars

\* a decimal literal of MAXTOKEN + 1 digits was returned as a number, all
\* its digits in the spelling buffer
C12_DigitsPastCapacity ==
  /\ last.op = "GetToken" /\ last.ret = T_NUMBER
  /\ token = Rep("1", MAXTOKEN + 1)

\* the line in the buffer without the newline that ends it
RefText == SubSeq(lineBuf, 1, Len(lineBuf) - 1)

\* what C13 says of a scan that starts on a string whose last backslash is
\* the last character of the line
C13_Step ==
  LET p == RefStart
      r == RefString(RefText, p + 1, <<>>)
  IN (p > 0 /\ lineBuf[p] = "\"" /\ r.dangling /\ Len(r.chars) <= MAXTOKEN) =>
       /\ last'.ret = "FAIL"
       /\ ScanError = "unterminated string"
       /\ token' = r.chars

\* C13: a string whose backslash is the last character before the end of
\* the line has that backslash decoded as a backslash (the spelling buffer
\* holds the characters before it, then a backslash) and GetToken fails
\* with "unterminated string".
C13_BackslashAtEnd == [][ScanStep => C13_Step]_vars

\* "a\ has been scanned: GetToken failed and the spelling buffer holds a
\* and a newline
C13_NewlineInSpelling ==
  /\ lineBuf = <<"\"", "a", "\\", NL>>
  /\ last.op = "GetToken" /\ last.ret = "FAIL"
  /\ token = <<"a", NL>>

\* what C14 says of a scan that starts on a string that is closed on the
\* line and fits the spelling buffer
C14_Step ==
  LET p == RefStart
      r == RefString(lineBuf, p + 1, <<>>)
  IN (p > 0 /\ lineBuf[p] = "\"" /\ r.closed /\ Len(r.chars) <= MAXTOKEN) =>
       /\ last'.ret = T_STRING
       /\ token' = r.chars
       /\ linePtr' = r.stop
       /\ inComment' = FALSE

\* C14: the spelling of a string literal is the raw characters between the
\* opening quote and the first unescaped quote, each backslash pair
\* replaced by one character (n, r, t decoded, any other character taken
\* as itself); // and /* inside the string are contents, and the cursor is
\* left after the closing quote.
C14_StringSpelling == [][ScanStep => C14_Step]_vars

\* the string "/*" has been returned: its spelling is /*, and no comment
\* was opened
C14_CommentCharsInString ==
  /\ last.op = "GetToken" /\ last.ret = T_STRING
  /\ token = <<"/", "*">>
  /\ ~inComment
  /\ linePtr = 5

\* the character of a character literal whose first character is at
\* position i, a backslash pair standing for one character as in a string,
\* and the position after it
RefChar(buf, i) ==
  IF buf[i] = "\\" /\ i < Len(buf)
  THEN [ch |-> RefEscape(buf[i + 1]), next |-> i + 2]
  ELSE [ch |-> buf[i], next |-> i + 1]

\* what C15 says of a scan that starts on a character literal
C15_Step ==
  LET p == RefStart
      c == RefChar(lineBuf, p + 1)
  IN (p > 0 /\ lineBuf[p] = "'") =>
       IF c.next <= Len(lineBuf) /\ lineBuf[c.next] = "'"
       THEN /\ last'.ret = T_NUMBER
            /\ value' = CharCode(c.ch)
            /\ linePtr' = c.next + 1
       ELSE /\ last'.ret = "FAIL"
            /\ ScanError = "Expecting a closing single quote"

\* C15: a character literal (quote, one character or one backslash pair
\* decoded as in a string, quote) is returned as a number whose value is
\* the code of that character; when the character is not followed at once
\* by a quote, GetToken fails with "Expecting a closing single quote".
C15_CharLiteral == [][ScanStep => C15_Step]_vars

\* '\t' has been scanned: GetToken failed on the t
C15_EscapedTabRejected ==
  /\ lineBuf = <<"'", "\\", "t", "'", NL>>
  /\ last.op = "GetToken" /\ last.ret = "FAIL"
  /\ linePtr = 4

\* the sixteen digits, in the order of their values
RefDigits ==
  << "0","1","2","3","4","5","6","7","8","9","A","B","C","D","E","F" >>

RefDigit(ch) ==
  (CHOOSE i \in DOMAIN RefDigits : RefDigits[i] = RefUpperCase(<<ch>>)[1]) - 1

RefIsDigit(ch, base) ==
  \E i \in 1..base : RefDigits[i] = RefUpperCase(<<ch>>)[1]

\* digits without the zeros it starts with
RECURSIVE RefSignificant(_)
RefSignificant(digits) ==
  IF digits # <<>> /\ Head(digits) = "0" THEN RefSignificant(Tail(digits))
  ELSE digits

\* a <= b for two digit strings of one length
RefDigitsLeq(a, b) ==
  \A i \in DOMAIN a :
    (\A j \in 1..(i - 1) : a[j] = b[j]) => RefDigit(a[i]) <= RefDigit(b[i])

\* the digit string denotes a value of at most 2^31 - 1
RefFits(digits, base) ==
  LET sig == RefSignificant(digits)
  IN IF base = 10
     THEN \/ Len(sig) < 10
          \/ /\ Len(sig) = 10
             /\ RefDigitsLeq(sig, <<"2","1","4","7","4","8","3","6","4","7">>)
     ELSE IF base = 16
     THEN Len(sig) < 8 \/ (Len(sig) = 8 /\ RefDigit(sig[1]) <= 7)
     ELSE Len(sig) <= 31

\* the value a digit string denotes in a base
RECURSIVE RefValue(_, _)
RefValue(digits, base) ==
  IF digits = <<>> THEN 0
  ELSE RefValue(SubSeq(digits, 1, Len(digits) - 1), base) * base
       + RefDigit(digits[Len(digits)])

\* the numeric literal that starts on the k-th character of vis: its base,
\* its digits with every _ removed, and the index in vis of the first
\* character after it that is neither a digit of the base nor _
RefNumber(buf, vis, k) ==
  LET Ch(j) == IF j <= Len(vis) THEN buf[vis[j]] ELSE EOF
      base == IF Ch(k) = "0" /\ Ch(k + 1) \in { "x", "X" } THEN 16
              ELSE IF Ch(k) = "0" /\ Ch(k + 1) \in { "b", "B" } THEN 2
              ELSE 10
      first == IF base = 10 THEN k ELSE k + 2
      InLiteral(j) == RefIsDigit(Ch(j), base) \/ Ch(j) = "_"
      stop == CHOOSE e \in first..(Len(vis) + 1) :
                /\ e = Len(vis) + 1 \/ ~InLiteral(e)
                /\ \A i \in first..(e - 1) : InLiteral(i)
  IN [base |-> base,
      digits |-> SelectSeq([i \in 1..(stop - first) |-> Ch(first + i - 1)],
                           LAMBDA c : c # "_"),
      stop |-> stop]

\* what C16 says of a scan that starts on a digit
C16_Step ==
  LET vis == RefScan(lineBuf, linePtr, inComment).vis
      p == RefStart
      k == CHOOSE j \in DOMAIN vis : vis[j] = p
      n == RefNumber(lineBuf, vis, k)
  IN (p > 0 /\ isdigit(lineBuf[p])) =>
       /\ last'.ret = T_NUMBER
       /\ token' = n.digits
       /\ RefFits(n.digits, n.base) => value' = RefValue(n.digits, n.base)
       /\ n.stop <= Len(vis) => linePtr' = vis[n.stop]

\* C16: a decimal, 0x / 0X or 0b / 0B literal is returned as a number
\* whose value is the base 10, 16 or 2 conversion of its digits with every
\* _ removed; the first character that is neither a digit of the base nor
\* _ is where the cursor is left; a literal too large for the value is
\* returned as a number all the same.
C16_NumberValue == [][ScanStep => C16_Step]_vars

\* 0x1_F has been scanned: the value is 31 and the cursor is on the blank
\* after the literal
C16_HexWithSeparator ==
  /\ last.op = "GetToken" /\ last.ret = T_NUMBER
  /\ token = <<"1", "F">>
  /\ value = 31
  /\ linePtr = 6
  /\ lineBuf[linePtr] = " "

(***************************************************************************)
(* The names of the token kinds.                                           *)
(***************************************************************************)
RefKeywordKinds == { ktab[i].token : i \in DOMAIN ktab }

RefSymbols ==
  [ T_LE |-> <<"<","=">>, T_NE |-> <<"<",">">>, T_GE |-> <<">","=">>,
    T_SHL |-> <<"<","<">>, T_SHR |-> <<">",">">> ]

RefPlaceholders ==
  [ T_IDENTIFIER |-> <<"<","I","D","E","N","T","I","F","I","E","R",">">>,
    T_NUMBER     |-> <<"<","N","U","M","B","E","R",">">>,
    T_STRING     |-> <<"<","S","T","R","I","N","G",">">>,
    T_EOL        |-> <<"<","E","O","L",">">>,
    T_EOF        |-> <<"<","E","O","F",">">> ]

\* the name of a kind: its spelling in the keyword table, its two words,
\* its symbol, its placeholder, or the quoted character
RefName(kind) ==
  IF kind \in RefKeywordKinds
  THEN ktab[CHOOSE i \in DOMAIN ktab : ktab[i].token = kind].keyword
  ELSE IF kind \in RefCompoundKinds
  THEN LET p == CHOOSE q \in RefPairs : q[3] = kind IN p[1] \o <<" ">> \o p[2]
  ELSE IF kind \in DOMAIN RefSymbols THEN RefSymbols[kind]
  ELSE IF kind \in DOMAIN RefPlaceholders THEN RefPlaceholders[kind]
  ELSE <<"'", kind, "'">>

\* C17: whenever Require reports a mismatch, the diagnostic names the
\* required kind and the kind found by the name of the kind: the table
\* spelling of a keyword, the two words of a compound, the symbol of a
\* two-character operator, the placeholder of an identifier, number,
\* string, end of line or end of file, and the quoted character of a
\* single-character token only.
C17_TokenNames ==
  [][(last'.op = "Require" /\ last'.ret = "FAIL") =>
       /\ errors' = Append(errors, errors'[Len(errors')])
       /\ errors'[Len(errors')].expected = RefName(last'.arg)
       /\ errors'[Len(errors')].found = RefName(last.ret)]_vars

\* the scanner returned ELSE IF, another kind was required, and the
\* diagnostic names the kind found as a quoted character
C17_ElseIfQuoted ==
  /\ last.op = "Require"
  /\ last.ret = "FAIL"
  /\ tokens # <<>>
  /\ tokens[Len(tokens)] = "T_ELSE_IF"
  /\ errors # <<>>
  /\ errors[Len(errors)].expected = RefPlaceholders[T_IDENTIFIER]
  /\ errors[Len(errors)].found = <<"'", LowByte, "'">>

(***************************************************************************)
(* Failures.                                                               *)
(***************************************************************************)
\* what a step that prints a diagnostic does, and the steps that print one
C18_Step ==
  /\ (errors' # errors /\ last'.op # "RewindInput") =>
       /\ control = "pass"
       /\ control' = "recovery"
       /\ errors' = <<errors'[1]>>
       /\ last'.op \in {"GetToken", "Require", "PushFile"}
       /\ last'.ret = "FAIL"
       /\ tokens' = tokens
       /\ savedToken' = savedToken
  /\ (last'.op = "Require" /\ last.ret # last'.arg) => errors' # errors
  /\ (ScanStep /\ ScanError # NoError) =>
       /\ errors' = <<Diagnostic(ScanError, <<>>, <<>>)>>
       /\ ScanError \in {"Identifier too long", "String too long",
                         "unterminated string",
                         "Expecting a closing single quote"}
  /\ (last'.op = "PushFile" /\ last'.ret = "FAIL") => errors' # errors
  /\ control = "recovery" => last'.op = "RewindInput"

\* C18: an operation that reports a failure (identifier or string too
\* long, unterminated string, missing closing quote, Require mismatch,
\* allocation failure) prints one diagnostic and takes control to the
\* recovery point of the pass: the failing GetToken, Require or PushFile
\* hands no token and no result to the pass, no operation of the pass
\* follows it, and a pass never prints more than one diagnostic.
C18_FailAborts ==
  /\ [](Len(errors) <= 1 /\ (control = "recovery" <=> errors # <<>>))
  /\ [][C18_Step]_vars

\* the second pass stopped at its recovery point on a Require mismatch,
\* one diagnostic printed
C18_SecondPassAborted ==
  /\ pass = 2
  /\ control = "recovery"
  /\ last.op = "Require"
  /\ last.ret = "FAIL"
  /\ Len(errors) = 1
  /\ errors[1].fmt = "Expecting '%s', found '%s'"

(***************************************************************************)
(* Pushback of a character.                                                *)
(***************************************************************************)
\* C19: a read (GetChar or XGetC), UngetC and the same read again: the
\* second read returns what the first returned and leaves the pointer
\* where the first left it, also when the first returned EOF at the end
\* of the line buffer.
C19_Pushback ==
  [][(last.op = "UngetC" /\ last'.op = last.arg) =>
       /\ last'.ret = last.ret
       /\ linePtr' = last.fetches]_vars

\* UngetC after a read that returned EOF at the end of the line: the
\* pointer is on the newline that ends the line
C19_UngetAfterEOF ==
  /\ last.op = "UngetC"
  /\ last.ret = EOF
  /\ last.fetches = Len(lineBuf) + 1
  /\ linePtr = Len(lineBuf)
  /\ lineBuf[linePtr] = NL

(***************************************************************************)
(* The second pass.                                                        *)
(***************************************************************************)
RefIsPrefix(a, b) == Len(a) <= Len(b) /\ SubSeq(b, 1, Len(a)) = a

\* C20: after RewindInput and ClearIncludedFiles the second pass scans the
\* tokens of the first pass again: as far as both passes went, the kinds of
\* the tokens scanned are the same, wherever the first pass was given up
\* (inside a block comment, with a token saved, with an include file
\* pushed, at the recovery point).
C20_SecondPassSame ==
  pass = 2 => (RefIsPrefix(tokens, firstPass) \/ RefIsPrefix(firstPass, tokens))

\* the first pass scanned x and the end of the line and left a block
\* comment open; the second pass found only the end of the line
C20_IdentifierLost ==
  /\ pass = 2
  /\ mainSrc = << <<"x", "/", "*", NL>> >>
  /\ firstPass = <<T_IDENTIFIER, T_EOL>>
  /\ tokens = <<T_EOL>>
  /\ inComment

(***************************************************************************)
(* What a successful PushFile stands for.                                  *)
(***************************************************************************)
\* C21: whenever PushFile(name) returns TRUE, the file was opened and
\* pushed as a frame by this call or by an earlier call since the list of
\* included files was last cleared; a PushFile(name) that could not open
\* the file does not make a later PushFile(name) return TRUE without
\* opening it.
C21_SuccessMeansOpened ==
  [][(last'.op = "PushFile" /\ last'.ret = "TRUE") =>
       last'.arg \in delivered'.opened]_vars

\* PushFile returned TRUE for a name that is in the list of included files
\* although no call has opened the file since the list was cleared
C21_SuccessNeverOpened ==
  /\ last.op = "PushFile"
  /\ last.ret = "TRUE"
  /\ last.arg \in Range(includedFiles)
  /\ last.arg \notin delivered.opened
  /\ fileStack = <<>>
  /\ heap.open = {}

====
